---- MODULE Spec2Model ----
(***************************************************************************)
(* Model of src/main.ts of the CI report action: getBuildWarnings(),       *)
(* getUnformattedFiles() and run().                                        *)
(*                                                                         *)
(* A JavaScript string is a sequence of pieces.  Texts that the program    *)
(* takes apart (logs, the unformatted-files input, numbers) are sequences  *)
(* of one-character pieces, so that split, trim, substr, the regular       *)
(* expression, parseInt and number formatting are computed on characters;  *)
(* the literal parts of a template are kept as one piece each.             *)
(*                                                                         *)
(* Artifact names are taken to be distinct, as the artifact store keeps    *)
(* them within one workflow run.                                           *)
(***************************************************************************)
EXTENDS Integers, Sequences, FiniteSets, TLC

VARIABLES
    artifacts,         \* artifact store: names returned by listArtifacts(), in order
    files,             \* file system after download: build name -> text of <name>.log
    unformattedInput,  \* the action input 'unformatted-files'
    eventName,         \* github.context.eventName
    pc,                \* position of run()
    buildWarnings,     \* Map<string, BuildWarning[]> in insertion order: Seq of [name, warnings]
    numBuilds,         \* NotAssigned until getBuildWarnings() has returned
    inputReads,        \* number of core.getInput('unformatted-files') calls made
    unformattedFiles,
    annotations,
    summarySections,
    textSections,
    trigger,
    headSha,
    calls,             \* requests sent to the GitHub API, in order
    status,            \* status of the pulls.get response (0: none yet)
    response,          \* response of checks.create (NoResponse: none yet)
    failures           \* messages passed to core.setFailed, in order

vars == <<artifacts, files, unformattedInput, eventName, pc, buildWarnings,
          numBuilds, inputReads, unformattedFiles, annotations,
          summarySections, textSections, trigger, headSha, calls, status, response,
          failures>>

inputs == <<artifacts, files, unformattedInput, eventName>>

----------------------------------------------------------------------------
(* Bounds of the model *)

MaxBuilds == 2          \* artifacts listed
MaxWarnings == 3        \* matching warning lines per build log
NearCap == 4            \* unformatted-file counts within NearCap below MAX_ANNOTATIONS
OverCap == 1            \* ... and up to OverCap above it
MaxSmall == 1           \* small unformatted-file counts 0..MaxSmall

----------------------------------------------------------------------------
(* Strings *)

Null == <<"null">>      \* JavaScript null / undefined (no string is <<"null">>)

RECURSIVE Join(_, _)
\* Array.prototype.join
Join(ss, sep) ==
    IF ss = <<>> THEN <<>>
    ELSE IF Len(ss) = 1 THEN ss[1]
    ELSE LET h == Len(ss) \div 2
         IN  Join(SubSeq(ss, 1, h), sep) \o sep
             \o Join(SubSeq(ss, h + 1, Len(ss)), sep)

\* String.prototype.split with a one-character separator: the pieces between
\* the occurrences of sep
Split(s, sep) ==
    LET pos == SelectSeq([i \in 1..Len(s) |-> i], LAMBDA i : s[i] = sep)
        n == Len(pos)
    IN  [k \in 1..(n + 1) |->
            SubSeq(s, IF k = 1 THEN 1 ELSE pos[k - 1] + 1,
                      IF k = n + 1 THEN Len(s) ELSE pos[k] - 1)]

WhiteSpace == {" ", "\t", "\r", "\n"}

RECURSIVE TrimStart(_)
TrimStart(s) ==
    IF s # <<>> /\ s[1] \in WhiteSpace THEN TrimStart(Tail(s)) ELSE s

RECURSIVE TrimEnd(_)
TrimEnd(s) ==
    IF s # <<>> /\ s[Len(s)] \in WhiteSpace
    THEN TrimEnd(SubSeq(s, 1, Len(s) - 1)) ELSE s

\* String.prototype.trim
Trim(s) == TrimEnd(TrimStart(s))

\* String.prototype.substr(start) with 0-based start
Substr(s, start) == SubSeq(s, start + 1, Len(s))

DigitChars == <<"0", "1", "2", "3", "4", "5", "6", "7", "8", "9">>

IsDigit(c) == \E d \in 1..10 : DigitChars[d] = c

DigitValue(c) == (CHOOSE d \in 1..10 : DigitChars[d] = c) - 1

RECURSIVE ParseInt(_)
\* Number.parseInt on a string of decimal digits
ParseInt(s) ==
    IF s = <<>> THEN 0
    ELSE 10 * ParseInt(SubSeq(s, 1, Len(s) - 1)) + DigitValue(s[Len(s)])

RECURSIVE NumberToString(_)
\* a non-negative integer in a template literal
NumberToString(n) ==
    IF n < 10 THEN <<DigitChars[n + 1]>>
    ELSE Append(NumberToString(n \div 10), DigitChars[(n % 10) + 1])

\* an object in a template literal
ObjectToString(o) == <<"[object Object]">>

----------------------------------------------------------------------------
\* The warning pattern of getBuildWarnings: any characters, ':', digits, ':',
\* digits, ': warning:', any characters to the end of the line (four groups).

LineTerminators == {"\n", "\r"}     \* what '.' does not match

WarningMarker == <<":", " ", "w", "a", "r", "n", "i", "n", "g", ":">>

NoTerminator(s) == \A i \in 1..Len(s) : s[i] \notin LineTerminators

RECURSIVE DigitRunEnd(_, _)
\* the index of the last digit of the maximal run of digits starting at i (i - 1: none)
DigitRunEnd(s, i) ==
    IF i <= Len(s) /\ IsDigit(s[i]) THEN DigitRunEnd(s, i + 1) ELSE i - 1

\* the groups of the match whose first group has length i, or Null
MatchAt(s, i) ==
    LET e1 == DigitRunEnd(s, i + 2)
        e2 == DigitRunEnd(s, e1 + 2)
        mk == e2 + Len(WarningMarker)
    IN  IF /\ i + 1 <= Len(s)
           /\ NoTerminator(SubSeq(s, 1, i))
           /\ s[i + 1] = ":"
           /\ e1 >= i + 2
           /\ e1 + 1 <= Len(s)
           /\ s[e1 + 1] = ":"
           /\ e2 >= e1 + 2
           /\ mk <= Len(s)
           /\ SubSeq(s, e2 + 1, mk) = WarningMarker
           /\ NoTerminator(SubSeq(s, mk + 1, Len(s)))
        THEN <<SubSeq(s, 1, i), SubSeq(s, i + 2, e1),
               SubSeq(s, e1 + 2, e2), SubSeq(s, mk + 1, Len(s))>>
        ELSE Null

\* line.match(...): groups 1..4 of the match, the first group greedy, or Null
Match(s) ==
    LET at == {i \in 0..Len(s) : MatchAt(s, i) # Null}
    IN  IF at = {} THEN Null
        ELSE MatchAt(s, CHOOSE i \in at : \A j \in at : j <= i)

\* the BuildWarning made of a match
ToBuildWarning(m) ==
    [path |-> Substr(m[1], 3),
     line |-> ParseInt(m[2]),
     column |-> ParseInt(m[3]),
     message |-> m[4]]

\* the warnings of one build log, in order of appearance: split, match,
\* drop the lines that do not match, build the records
ParseLog(log) ==
    LET lines == Split(log, "\n")
        matches == SelectSeq([i \in 1..Len(lines) |-> Match(lines[i])],
                             LAMBDA m : m # Null)
    IN  [i \in 1..Len(matches) |-> ToBuildWarning(matches[i])]

\* Map.prototype.set on a map kept in insertion order
MapSet(map, name, warnings) ==
    IF \E i \in 1..Len(map) : map[i].name = name
    THEN [i \in 1..Len(map) |->
            IF map[i].name = name THEN [name |-> name, warnings |-> warnings]
            ELSE map[i]]
    ELSE Append(map, [name |-> name, warnings |-> warnings])

\* entering every build in the map, also with no warnings
HasWarnings_Always(warnings) == TRUE

\* whether a build's warnings are entered in the map
HasWarnings(warnings) == Len(warnings) > 0

RECURSIVE CollectBuildWarnings(_, _, _)
\* the loop over allArtifacts: a build with no warnings gets no entry
CollectBuildWarnings(names, fs, map) ==
    IF names = <<>> THEN map
    ELSE LET warnings == ParseLog(fs[Head(names)])
         IN  CollectBuildWarnings(Tail(names), fs,
                 IF HasWarnings(warnings)
                 THEN MapSet(map, Head(names), warnings) ELSE map)

\* getUnformattedFiles() on the input text: split, trim, drop the empty lines
getUnformattedFiles(input) ==
    LET lines == Split(input, "\n")
    IN  SelectSeq([i \in 1..Len(lines) |-> Trim(lines[i])], LAMBDA f : f # <<>>)

----------------------------------------------------------------------------
(* The report of run() *)

\* We are limited to 50 annotations in a single API request
MAX_ANNOTATIONS == 50

Max(a, b) == IF a >= b THEN a ELSE b

\* space left for warning annotations once every unformatted file has one
maxWarningAnnotations(uf) == Max(0, MAX_ANNOTATIONS - Len(uf))

WarningAnnotation(buildName, w) ==
    [path |-> w.path,
     start_line |-> w.line,
     end_line |-> w.line,
     start_column |-> w.column,
     end_column |-> w.column,
     annotation_level |-> "warning",
     message |-> <<"Build \"">> \o buildName \o <<"\" generated warning: ">>
                 \o w.message]

\* the test that leaves the loop over one build's warnings; created is the
\* counter after its increment
LoopBreaks(created, max) == created >= max

RECURSIVE ForEachWarning(_, _, _, _)
\* the loop over one build's warnings; st = [created, annotations, total]
ForEachWarning(buildName, ws, st, max) ==
    IF ws = <<>> THEN st
    ELSE LET created == st.created + 1
         IN  IF LoopBreaks(created, max)
             THEN [st EXCEPT !.created = created]
             ELSE ForEachWarning(buildName, Tail(ws),
                      [st EXCEPT !.created = created,
                                 !.annotations =
                                     Append(@, WarningAnnotation(buildName, Head(ws)))],
                      max)

RECURSIVE ForEachBuild(_, _, _)
\* buildWarnings.forEach of the annotation loop
ForEachBuild(bw, st, max) ==
    IF bw = <<>> THEN st
    ELSE ForEachBuild(Tail(bw),
             ForEachWarning(bw[1].name, bw[1].warnings,
                 [st EXCEPT !.total = @ + Len(bw[1].warnings)], max),
             max)

WarningsSentence(n, m) ==
    <<"Warnings were generated for ">> \o NumberToString(n) \o <<" of ">>
    \o NumberToString(m) \o <<" build(s).">>

NoWarningsSentence == <<"No warnings were generated.">>

\* the first summary sentence
WarningsSummary(bw, nb) ==
    IF Len(bw) > 0 THEN WarningsSentence(Len(bw), nb) ELSE NoWarningsSentence

RECURSIVE BuildList(_)
\* one line per entry of the map: name and number of warnings
BuildList(bw) ==
    IF bw = <<>> THEN <<>>
    ELSE <<"- ">> \o bw[1].name \o <<": ">>
         \o NumberToString(Len(bw[1].warnings)) \o <<"\n">>
         \o BuildList(Tail(bw))

WarningsHeader == <<"(!) Warnings were generated for the following build(s):\n">>

TruncationNotice(shown, total) ==
    <<"\n\nShowing first **">> \o NumberToString(shown)
    \o <<"** warnings out of **">> \o NumberToString(total) \o <<"** total.">>

\* the detail block of the warnings
WarningsText(bw, total, max) ==
    WarningsHeader \o BuildList(bw)
    \o (IF total >= max THEN TruncationNotice(max, total) ELSE <<>>)

FailureAnnotation(f) ==
    [path |-> f,
     start_line |-> 1,
     end_line |-> 1,
     annotation_level |-> "failure",
     message |-> <<"File is not formatted according to .clang-format.">>]

UnformattedSentence == <<"Some files are not formatted according to .clang-format.">>

FormattedSentence == <<"All files are formatted according to .clang-format.">>

UnformattedHeader ==
    <<"(x) The following files are not formatted according to .clang-format:\n">>

UnformattedText(uf) ==
    UnformattedHeader
    \o Join([i \in 1..Len(uf) |-> <<"- ">> \o uf[i]], <<"\n">>)

\* annotations, summarySections and textSections as run() builds them
Report(bw, nb, uf) ==
    LET max == maxWarningAnnotations(uf)
        st == ForEachBuild(bw, [created |-> 0, annotations |-> <<>>, total |-> 0], max)
    IN  [annotations |->
             (IF Len(bw) > 0 THEN st.annotations ELSE <<>>)
             \o [i \in 1..Len(uf) |-> FailureAnnotation(uf[i])],
         summarySections |->
             <<WarningsSummary(bw, nb),
               IF Len(uf) > 0 THEN UnformattedSentence ELSE FormattedSentence>>,
         textSections |->
             (IF Len(bw) > 0 THEN <<WarningsText(bw, st.total, max)>> ELSE <<>>)
             \o (IF Len(uf) > 0 THEN <<UnformattedText(uf)>> ELSE <<>>)]

\* a conclusion that looks at the warnings first
Conclusion_WarningsFirst(uf, bw) ==
    IF Len(bw) > 0 THEN "action_required"
    ELSE IF Len(uf) > 0 THEN "failure"
    ELSE "success"

\* the conclusion of the check run
Conclusion(uf, bw) ==
    IF Len(uf) > 0 THEN "failure"
    ELSE IF Len(bw) > 0 THEN "action_required"
    ELSE "success"

\* the name of the trigger
Trigger(ev) ==
    IF ev = "pull_request" \/ ev = "pull_request_target" THEN "pr" ELSE ev

ContextSha == "context.sha"             \* github.context.sha

PullRequestHeadSha == "pullRequest.head.sha"

\* the request of octocat.rest.checks.create
CheckRun(sha, trg, uf, bw, summary, text, anns) ==
    [api |-> "checks.create",
     head_sha |-> sha,
     name |-> <<"celerity-ci-report-", trg>>,
     conclusion |-> Conclusion(uf, bw),
     output |-> [title |-> <<"Celerity CI Report">>,
                 summary |-> Join(summary, <<" ">>),
                 text |-> Join(text, <<"\n\n">>),
                 annotations |-> anns]]

PullsGet == [api |-> "pulls.get"]

\* core.setFailed
setFailed(message) == failures' = Append(failures, message)

----------------------------------------------------------------------------
(* Inputs *)

\* the name of the i-th artifact
BuildName(i) == <<"b">> \o NumberToString(i)

\* a warning line of a log, as the compiler prints it from the build folder
WarningLine(i) ==
    <<".", ".", "/", "s", ".", "c", ":">> \o NumberToString(i)
    \o <<":", "4">> \o WarningMarker \o <<" ", "w">>

RECURSIVE WarningLines(_)
WarningLines(k) ==
    IF k = 0 THEN <<>> ELSE WarningLines(k - 1) \o WarningLine(k) \o <<"\n">>

\* a log with k warnings among other output
MkLog(k) ==
    <<"c", "c", " ", "s", ".", "c", "\n">> \o WarningLines(k)
    \o <<"s", ".", "c", ":", "1", ":", " ", "n", "o", "t", "e", ":", "\n">>

BuildLogs == {MkLog(k) : k \in 0..MaxWarnings}

\* n lines naming a file each
FileLines(n) == [i \in 1..(2 * n) |-> IF i % 2 = 1 THEN "f" ELSE "\n"]

\* an input naming n files, with blank lines and surrounding spaces
MkInput(n) ==
    IF n = 0 THEN <<" ", "\n">>
    ELSE <<" ", "f", " ", "\n", "\n">> \o FileLines(n - 1)

UnformattedCounts ==
    (0..MaxSmall) \cup ((MAX_ANNOTATIONS - NearCap)..(MAX_ANNOTATIONS + OverCap))

EventNames == {"push", "pull_request", "pull_request_target"}

PullStatuses == {200, 404}

CreateStatuses == {201, 422}

Errors == {[message |-> <<"request failed">>], [message |-> Null]}

NotAssigned == 0 - 1

NoResponse == [status |-> 0]

----------------------------------------------------------------------------
(* run() *)

InitRun ==
    /\ pc = "getBuildWarnings"
    /\ buildWarnings = <<>>
    /\ numBuilds = NotAssigned
    /\ inputReads = 0
    /\ unformattedFiles = <<>>
    /\ annotations = <<>>
    /\ summarySections = <<>>
    /\ textSections = <<>>
    /\ trigger = ""
    /\ headSha = ""
    /\ calls = <<>>
    /\ status = 0
    /\ response = NoResponse
    /\ failures = <<>>

Init ==
    /\ \E n \in 0..MaxBuilds :
         /\ artifacts = [i \in 1..n |-> BuildName(i)]
         /\ files \in [{BuildName(i) : i \in 1..n} -> BuildLogs]
    /\ unformattedInput \in {MkInput(n) : n \in UnformattedCounts}
    /\ eventName \in EventNames
    /\ InitRun

\* getBuildWarnings() returns
GetBuildWarnings ==
    /\ pc = "getBuildWarnings"
    /\ buildWarnings' = CollectBuildWarnings(artifacts, files, <<>>)
    /\ numBuilds' = Len(artifacts)
    /\ pc' = "gotBuildWarnings"
    /\ UNCHANGED <<inputs, inputReads, unformattedFiles, annotations,
                   summarySections, textSections, trigger, headSha, calls,
                   status, response, failures>>

\* going on without any build log
NoBuilds_Never(n) == FALSE

\* whether run() gives up for want of build logs
NoBuilds(n) == n = 0

\* no artifact: the job fails and run() returns
NoBuildLogs ==
    /\ pc = "gotBuildWarnings"
    /\ NoBuilds(numBuilds)
    /\ setFailed(<<"No build logs found">>)
    /\ pc' = "done"
    /\ UNCHANGED <<inputs, buildWarnings, numBuilds, inputReads,
                   unformattedFiles, annotations, summarySections,
                   textSections, trigger, headSha, calls, status, response>>

\* whether the head commit is looked up
NeedsLookup(trg) == trg = "pr"

\* the report is built; the pull request is looked up or the check run sent
BuildReport ==
    /\ pc = "gotBuildWarnings"
    /\ ~NoBuilds(numBuilds)
    /\ LET uf == getUnformattedFiles(unformattedInput)
           r == Report(buildWarnings, numBuilds, uf)
           trg == Trigger(eventName)
       IN  /\ inputReads' = inputReads + 1
           /\ unformattedFiles' = uf
           /\ annotations' = r.annotations
           /\ summarySections' = r.summarySections
           /\ textSections' = r.textSections
           /\ trigger' = trg
           /\ headSha' = ContextSha
           /\ IF NeedsLookup(trg)
              THEN /\ calls' = Append(calls, PullsGet)
                   /\ pc' = "pullsGet"
              ELSE /\ calls' = Append(calls,
                          CheckRun(ContextSha, trg, uf, buildWarnings,
                                   r.summarySections, r.textSections,
                                   r.annotations))
                   /\ pc' = "checksCreate"
    /\ UNCHANGED <<inputs, buildWarnings, numBuilds, status, response, failures>>

\* taking any answer of the lookup for a success
LookupOk_Always(st) == TRUE

\* whether the pull request lookup succeeded
LookupOk(st) == st = 200

\* pulls.get returns
PullsGetReturns ==
    /\ pc = "pullsGet"
    /\ \E st \in PullStatuses :
         /\ status' = st
         /\ IF ~LookupOk(st)
            THEN /\ setFailed(<<"Failed to get pull request: ">> \o NumberToString(st))
                 /\ pc' = "done"
                 /\ UNCHANGED <<headSha, calls>>
            ELSE /\ headSha' = PullRequestHeadSha
                 /\ calls' = Append(calls,
                        CheckRun(PullRequestHeadSha, trigger, unformattedFiles,
                                 buildWarnings, summarySections, textSections,
                                 annotations))
                 /\ pc' = "checksCreate"
                 /\ UNCHANGED failures
    /\ UNCHANGED <<inputs, buildWarnings, numBuilds, inputReads,
                   unformattedFiles, annotations, summarySections,
                   textSections, trigger, response>>

\* relying on the failed check run to fail the job
FailsAfterCreate_Never(uf) == FALSE

\* whether the action fails after the check run was created
FailsAfterCreate(uf) == Len(uf) > 0

\* checks.create returns
ChecksCreateReturns ==
    /\ pc = "checksCreate"
    /\ \E st \in CreateStatuses :
         LET resp == [status |-> st]
         IN  /\ response' = resp
             /\ IF resp.status # 201
                THEN setFailed(<<"Failed to create check: ">> \o ObjectToString(resp))
                ELSE IF FailsAfterCreate(unformattedFiles)
                THEN setFailed(summarySections[2])
                ELSE UNCHANGED failures
    /\ pc' = "done"
    /\ UNCHANGED <<inputs, buildWarnings, numBuilds, inputReads,
                   unformattedFiles, annotations, summarySections,
                   textSections, trigger, headSha, calls, status>>

\* an awaited call throws: the catch block of run()
Catch ==
    /\ pc \in {"getBuildWarnings", "pullsGet", "checksCreate"}
    /\ \E error \in Errors :
         setFailed(IF error.message # Null THEN error.message
                   ELSE <<"Unknown error">>)
    /\ pc' = "done"
    /\ UNCHANGED <<inputs, buildWarnings, numBuilds, inputReads,
                   unformattedFiles, annotations, summarySections,
                   textSections, trigger, headSha, calls, status, response>>

Next ==
    \/ GetBuildWarnings
    \/ NoBuildLogs
    \/ BuildReport
    \/ PullsGetReturns
    \/ ChecksCreateReturns
    \/ Catch

Spec == Init /\ [][Next]_vars

----------------------------------------------------------------------------
(* The parser alone, on logs of one line of interest *)

ParserPaths ==
    { <<".", ".", "/", "s", ".", "c">>,
      <<".", ".", "/", ".", ".", "/", "s", ".", "c">>,
      <<"s", "r", "c", "/", "s", ".", "c">>,
      <<"/", "s", ".", "c">>,
      <<"s">>,
      <<>> }

ParserLineDigits == { <<"0">>, <<"7">>, <<"1", "2">>, <<"0", "0", "7">> }

ParserColumnDigits == { <<"0">>, <<"4">> }

ParserMessages == { <<" ", "w">>, <<>> }

ParserLineEnds == { <<>>, <<"\r">>, <<"\n", "l", "d">> }

ParserLogs ==
    { <<"c", "c", "\n">> \o p \o <<":">> \o l \o <<":">> \o c \o WarningMarker
      \o m \o e :
        p \in ParserPaths, l \in ParserLineDigits, c \in ParserColumnDigits,
        m \in ParserMessages, e \in ParserLineEnds }

InitParser ==
    /\ artifacts = <<BuildName(1)>>
    /\ files \in [{BuildName(1)} -> ParserLogs]
    /\ unformattedInput = MkInput(0)
    /\ eventName = "push"
    /\ InitRun

NextParser == GetBuildWarnings

SpecParser == InitParser /\ [][NextParser]_vars

----------------------------------------------------------------------------
(* What the properties speak of *)

\* the check runs submitted so far
Submissions == SelectSeq(calls, LAMBDA c : c.api = "checks.create")

\* the pull request lookups made so far
Lookups == SelectSeq(calls, LAMBDA c : c.api = "pulls.get")

\* the warning-level annotations of a submitted check run
WarningAnnotationsOf(c) ==
    SelectSeq(c.output.annotations, LAMBDA a : a.annotation_level = "warning")

\* whether a log holds a line of the warning pattern
HasMatchingLine(log) ==
    LET lines == Split(log, "\n")
    IN  \E i \in 1..Len(lines) : Match(lines[i]) # Null

\* the artifacts whose log holds at least one warning line
BuildsWithWarnings ==
    {i \in 1..Len(artifacts) : HasMatchingLine(files[artifacts[i]])}

RECURSIVE SumWarnings(_)
\* the number of warnings over all builds of the map
SumWarnings(bw) ==
    IF bw = <<>> THEN 0 ELSE Len(bw[1].warnings) + SumWarnings(Tail(bw))

Min(a, b) == IF a <= b THEN a ELSE b

\* whether text t holds d as a contiguous part
Includes(t, d) ==
    \E i \in 1..(Len(t) - Len(d) + 1) : SubSeq(t, i, i + Len(d) - 1) = d

StartsWith(t, d) == Len(t) >= Len(d) /\ SubSeq(t, 1, Len(d)) = d

\* the number of files the input names (whether or not run() has read it)
NumUnformatted == Len(getUnformattedFiles(unformattedInput))

PullRequestEvents == {"pull_request", "pull_request_target"}

----------------------------------------------------------------------------
(* Properties *)

\* C1: every submitted check run carries at most MAX_ANNOTATIONS (50)
\* annotations, whatever the numbers of warnings and of unformatted files.
C1_AtMostMaxAnnotations ==
    \A i \in 1..Len(Submissions) :
        Len(Submissions[i].output.annotations) <= MAX_ANNOTATIONS

\* C2: the submitted conclusion is 'failure' when there are unformatted files,
\* else 'action_required' when the warning map is not empty, else 'success'.
C2_Conclusion ==
    \A i \in 1..Len(Submissions) :
        Submissions[i].conclusion =
            (IF NumUnformatted > 0 THEN "failure"
             ELSE IF BuildsWithWarnings # {} THEN "action_required"
             ELSE "success")

C2_Witness ==
    /\ Len(Submissions) = 1
    /\ NumUnformatted > 0
    /\ BuildsWithWarnings # {}
    /\ Submissions[1].conclusion = "failure"

\* C3: with budget B = max(0, 50 - unformatted files) and T warnings in all,
\* the submitted check run carries exactly min(T, B) warning annotations.
C3_WarningAnnotationCount ==
    \A i \in 1..Len(Submissions) :
        Len(WarningAnnotationsOf(Submissions[i])) =
            Min(SumWarnings(buildWarnings),
                Max(0, MAX_ANNOTATIONS - Len(unformattedFiles)))

\* C4: when the total number of warnings reaches the budget, the warnings
\* detail block ends with the truncation notice, whose 'shown' number is the
\* number of warning annotations submitted and whose 'total' is the number of
\* warnings of all builds.
C4_NoticeStatesShownCount ==
    \A i \in 1..Len(Submissions) :
        LET total == SumWarnings(buildWarnings)
            budget == Max(0, MAX_ANNOTATIONS - Len(unformattedFiles))
        IN  (buildWarnings # <<>> /\ total >= budget) =>
                textSections[1] =
                    WarningsHeader \o BuildList(buildWarnings)
                    \o TruncationNotice(Len(WarningAnnotationsOf(Submissions[i])),
                                        total)

\* C5: when run() has finished and the input names unformatted files, the job
\* has been failed; after a 201 response the failure is the formatting summary
\* sentence, and with no unformatted file and a 201 response nothing has failed.
C5_FailedWhenUnformatted ==
    pc = "done" =>
        /\ NumUnformatted > 0 => failures # <<>>
        /\ response.status = 201 =>
              failures = (IF NumUnformatted > 0 THEN <<UnformattedSentence>>
                          ELSE <<>>)

C5_Witness ==
    /\ pc = "done"
    /\ NumUnformatted > 0
    /\ response.status = 201
    /\ failures = <<UnformattedSentence>>

\* C6: once zero artifacts were discovered, run() fails the job with 'No build
\* logs found' and ends; the unformatted-files input is never read, no pull
\* request is looked up and no check run is submitted.  A check run is
\* submitted only with at least one build.
C6_NoBuildsFailsAtOnce ==
    /\ numBuilds = 0 =>
          /\ inputReads = 0
          /\ calls = <<>>
          /\ \/ pc = "gotBuildWarnings" /\ failures = <<>>
             \/ pc = "done" /\ failures = << <<"No build logs found">> >>
    /\ Submissions # <<>> => numBuilds >= 1

C6_Witness ==
    /\ pc = "done"
    /\ numBuilds = 0
    /\ NumUnformatted > 0
    /\ eventName \in PullRequestEvents
    /\ failures = << <<"No build logs found">> >>

\* C7: when checks.create answers with a status other than 201, the job is
\* failed with a message that includes that status, and exactly one check run
\* was submitted.
C7_CreateFailureNamesStatus ==
    (pc = "done" /\ response.status \notin {0, 201}) =>
        /\ Len(failures) = 1
        /\ Includes(failures[1], NumberToString(response.status))
        /\ Len(Submissions) = 1

\* C8: every parsed warning has line >= 1 and column >= 1 and a path that does
\* not begin with '../'.
C8_ParsedWarningsWellFormed ==
    \A i \in 1..Len(buildWarnings) :
        \A j \in 1..Len(buildWarnings[i].warnings) :
            LET w == buildWarnings[i].warnings[j]
            IN  /\ w.line >= 1
                /\ w.column >= 1
                /\ ~StartsWith(w.path, <<".", ".", "/">>)

\* C9: the warning map holds exactly the builds whose log has a matching line,
\* none with an empty sequence; the first summary sentence names their number
\* N and the number M of artifacts, and is 'No warnings were generated.'
\* exactly when N = 0; N <= M.
C9_SummaryCountsBuildsWithWarnings ==
    LET N == Cardinality(BuildsWithWarnings)
        M == Len(artifacts)
    IN  /\ numBuilds # NotAssigned =>
              /\ numBuilds = M
              /\ Len(buildWarnings) = N
              /\ N <= M
              /\ {buildWarnings[i].name : i \in 1..Len(buildWarnings)}
                     = {artifacts[i] : i \in BuildsWithWarnings}
              /\ \A i \in 1..Len(buildWarnings) :
                     Len(buildWarnings[i].warnings) > 0
        /\ summarySections # <<>> =>
              /\ summarySections[1] =
                     (IF N = 0 THEN NoWarningsSentence ELSE WarningsSentence(N, M))
              /\ (N = 0) = (textSections = <<>> \/ textSections[1][1] # WarningsHeader[1])
        /\ \A i \in 1..Len(Submissions) :
              StartsWith(Submissions[i].output.summary,
                         IF N = 0 THEN NoWarningsSentence ELSE WarningsSentence(N, M))

C9_Witness ==
    /\ Len(Submissions) = 1
    /\ Cardinality(BuildsWithWarnings) = 1
    /\ Len(artifacts) = 2
    /\ summarySections[1] = WarningsSentence(1, 2)

\* C10: the pull request is looked up only for pull request events, at most
\* once and before any submission; a status other than 200 fails the job with
\* the status in the message and nothing is submitted; after status 200 the
\* check run is attached to the looked-up head commit; for other events there
\* is no lookup and the commit of the event is used.  At most one check run is
\* submitted.
C10_LookupBeforeSingleSubmission ==
    /\ Len(Submissions) <= 1
    /\ Len(Lookups) <= 1
    /\ Lookups # <<>> => eventName \in PullRequestEvents
    /\ \A i, j \in 1..Len(calls) :
          (calls[i].api = "pulls.get" /\ calls[j].api = "checks.create") => i < j
    /\ status \notin {0, 200} =>
          /\ pc = "done"
          /\ Submissions = <<>>
          /\ failures = << <<"Failed to get pull request: ">>
                           \o NumberToString(status) >>
    /\ \A i \in 1..Len(Submissions) :
          IF eventName \in PullRequestEvents
          THEN /\ status = 200
               /\ Lookups # <<>>
               /\ Submissions[i].head_sha = PullRequestHeadSha
          ELSE /\ Lookups = <<>>
               /\ Submissions[i].head_sha = ContextSha

C10_Witness ==
    /\ eventName = "pull_request_target"
    /\ status = 200
    /\ Len(Lookups) = 1
    /\ Len(Submissions) = 1
    /\ Submissions[1].head_sha = PullRequestHeadSha

====
